---- MODULE Spec2Model ----
(***************************************************************************)
(* Model of the WrenAI indexing pipeline                                   *)
(* (wren-ai-service/src/pipelines/indexing/indexing.py).                   *)
(*                                                                         *)
(* Texts that the code only concatenates are TLC strings.  Texts that the  *)
(* code parses or computes character by character (relationship            *)
(* conditions, join types, document identifiers) are sequences of          *)
(* one-character strings.  A Python dict whose order matters (a properties *)
(* map) is a sequence of <<key, value>> pairs; a dict with optional keys   *)
(* is a function whose DOMAIN holds the keys that are present.             *)
(***************************************************************************)
EXTENDS Integers, Sequences, FiniteSets, TLC

VARIABLES
    ddl_store,    \* Indexing.__init__: ddl_store, id -> document
    view_store,   \* Indexing.__init__: view_store, id -> document
    mdl_str,      \* per run: the mdl_str input of Indexing.run
    node,         \* per run: state of every node of the dataflow graph
    result,       \* per run: "idle", "running", "success" or "failure"
    start_ddl,    \* history: ddl_store when the run was started
    start_view,   \* history: view_store when the run was started
    trace,        \* history: <<run, node>> of a completed reset or a write
    conv_in,      \* input of a stand-alone DDLConverter.run call
    conv_out      \* its outcome

vars == <<ddl_store, view_store, mdl_str, node, result,
          start_ddl, start_view, trace, conv_in, conv_out>>

pipe_vars == <<ddl_store, view_store, mdl_str, node, result,
               start_ddl, start_view, trace>>

(***************************************************************************)
(* Bounds                                                                  *)
(***************************************************************************)
MaxModels == 2
MaxRels == 1
MaxMetrics == 4
MaxViews == 5
ManyViews == 11

(***************************************************************************)
(* Text helpers                                                            *)
(***************************************************************************)
RECURSIVE Cat(_)
\* "".join(parts)
Cat(parts) ==
    IF parts = <<>> THEN "" ELSE Head(parts) \o Cat(Tail(parts))

RECURSIVE Join(_, _)
\* sep.join(parts)
Join(parts, sep) ==
    IF parts = <<>> THEN ""
    ELSE IF Len(parts) = 1 THEN parts[1]
    ELSE parts[1] \o sep \o Join(Tail(parts), sep)

\* cs[from .. ] starts with sep
StartsAt(cs, from, sep) ==
    /\ from + Len(sep) - 1 <= Len(cs)
    /\ \A k \in 1..Len(sep) : cs[from + k - 1] = sep[k]

RECURSIVE SplitFrom(_, _, _, _)
SplitFrom(cs, sep, from, piece) ==
    IF from > Len(cs) THEN <<piece>>
    ELSE IF StartsAt(cs, from, sep)
         THEN <<piece>> \o SplitFrom(cs, sep, from + Len(sep), <<>>)
         ELSE SplitFrom(cs, sep, from + 1, Append(piece, cs[from]))

\* str.split(sep) on a sequence of characters
Split(cs, sep) == SplitFrom(cs, sep, 1, <<>>)

UpperChar(c) ==
    CASE c = "a" -> "A" [] c = "b" -> "B" [] c = "c" -> "C" [] c = "d" -> "D"
      [] c = "e" -> "E" [] c = "f" -> "F" [] c = "g" -> "G" [] c = "h" -> "H"
      [] c = "i" -> "I" [] c = "j" -> "J" [] c = "k" -> "K" [] c = "l" -> "L"
      [] c = "m" -> "M" [] c = "n" -> "N" [] c = "o" -> "O" [] c = "p" -> "P"
      [] c = "q" -> "Q" [] c = "r" -> "R" [] c = "s" -> "S" [] c = "t" -> "T"
      [] c = "u" -> "U" [] c = "v" -> "V" [] c = "w" -> "W" [] c = "x" -> "X"
      [] c = "y" -> "Y" [] c = "z" -> "Z" [] OTHER -> c

\* str.upper() on a sequence of characters
Upper(cs) == [k \in 1..Len(cs) |-> UpperChar(cs[k])]

Digits == <<"0", "1", "2", "3", "4", "5", "6", "7", "8", "9">>

RECURSIVE StrInt(_)
\* str(i) for a non-negative integer, as a sequence of characters
StrInt(i) ==
    IF i < 10 THEN <<Digits[i + 1]>>
    ELSE StrInt(i \div 10) \o <<Digits[(i % 10) + 1]>>

(***************************************************************************)
(* Ordered dicts: sequences of <<key, value>> pairs                        *)
(***************************************************************************)
DictHas(d, k) == \E i \in 1..Len(d) : d[i][1] = k

\* d.get(k, default)
DictGet(d, k, default) ==
    IF DictHas(d, k)
    THEN d[CHOOSE i \in 1..Len(d) : d[i][1] = k][2]
    ELSE default

\* d after d.pop(k, default)
DictPop(d, k) == SelectSeq(d, LAMBDA kv : kv[1] # k)

\* d after d[k] = v
DictSet(d, k, v) ==
    IF DictHas(d, k)
    THEN [i \in 1..Len(d) |-> IF d[i][1] = k THEN <<k, v>> ELSE d[i]]
    ELSE Append(d, <<k, v>>)

\* properties["alias"] = properties.pop("displayName", "")
RenameDisplayName(properties) ==
    DictSet(DictPop(properties, "displayName"), "alias",
            DictGet(properties, "displayName", ""))

\* orjson.dumps(d).decode("utf-8") for a dict of strings
Dumps(d) ==
    "{" \o Join([i \in 1..Len(d) |->
                    "\"" \o d[i][1] \o "\":\"" \o d[i][2] \o "\""], ",")
        \o "}"

\* str(d) for a dict of strings
PyRepr(d) ==
    "{" \o Join([i \in 1..Len(d) |->
                    "'" \o d[i][1] \o "': '" \o d[i][2] \o "'"], ", ")
        \o "}"

(***************************************************************************)
(* haystack Document                                                       *)
(***************************************************************************)
\* Document(id=id, meta={"id": id}, content=content)
NewDocument(id, content) ==
    [id |-> id, meta |-> [id |-> id], content |-> content,
     embedding |-> "None"]

\* the documents built from enumerate(texts), with id=str(i)
Enumerate(texts) ==
    [i \in 1..Len(texts) |-> NewDocument(StrInt(i - 1), texts[i])]

(***************************************************************************)
(* ViewConverter                                                           *)
(***************************************************************************)
\* view.get("properties", {})
ViewProperties(view) ==
    IF "properties" \in DOMAIN view THEN view.properties ELSE <<>>

\* view.get("statement", "")
ViewStatement(view) ==
    IF "statement" \in DOMAIN view THEN view.statement ELSE ""

\* ViewConverter.run, _format with properties and statement read
ViewRecord(properties, statement) ==
    PyRepr(<< <<"question", DictGet(properties, "question", "")>>,
              <<"summary", DictGet(properties, "summary", "")>>,
              <<"statement", statement>>,
              <<"viewId", DictGet(properties, "viewId", "")>> >>)

\* ViewConverter.run, _format
ViewFormat(view) == ViewRecord(ViewProperties(view), ViewStatement(view))

\* ViewConverter.run
ViewConverterRun(mdl) ==
    [status |-> "ok",
     documents |-> Enumerate([i \in 1..Len(mdl.views) |->
                                 ViewFormat(mdl.views[i])])]

(***************************************************************************)
(* DDLConverter                                                            *)
(***************************************************************************)
DdlColumnKeys ==
    {"name", "type", "properties", "relationship", "expression",
     "isCalculated"}

\* DDLConverter.run, the ddl_column built for one column
DdlColumn(column) ==
    [k \in (DOMAIN column) \cap DdlColumnKeys |-> column[k]]

\* DDLConverter.run, the entry appended to semantics["models"]
SemanticModel(model) ==
    [type |-> "model",
     name |-> model.name,
     properties |-> IF "properties" \in DOMAIN model
                    THEN model.properties ELSE <<>>,
     columns |-> [i \in 1..Len(model.columns) |->
                     DdlColumn(model.columns[i])],
     primaryKey |-> model.primaryKey]

\* DDLConverter.run, semantics["models"]
SemanticModels(models) ==
    [i \in 1..Len(models) |-> SemanticModel(models[i])]

\* primary_keys_map: a later model of the same name wins
PrimaryKeysMap(models) ==
    [n \in {models[i].name : i \in 1..Len(models)} |->
        models[CHOOSE i \in 1..Len(models) :
                  /\ models[i].name = n
                  /\ \A j \in (i + 1)..Len(models) : models[j].name # n
              ].primaryKey]

\* the comment line made of a column's properties
PropertiesComment(column) ==
    IF "properties" \in DOMAIN column
    THEN "-- " \o Dumps(RenameDisplayName(column.properties)) \o "\n  "
    ELSE ""

\* the comment lines added for a calculated column
CalculatedComment(column) ==
    IF "isCalculated" \in DOMAIN column /\ column.isCalculated
    THEN "-- This column is a Calculated Field\n  -- column expression: "
            \o column.expression \o "\n  "
    ELSE ""

\* one entry of columns_ddl for a column without a relationship marker
ColumnDdl(model, column) ==
    PropertiesComment(column) \o CalculatedComment(column)
        \o column.name \o " " \o column.type
        \o (IF column.name = model.primaryKey THEN " PRIMARY KEY" ELSE "")

\* the columns the column loop renders
PlainColumns(columns) ==
    SelectSeq(columns, LAMBDA c : "relationship" \notin DOMAIN c)

\* the column loop of one model
ColumnLines(model) ==
    [i \in 1..Len(PlainColumns(model.columns)) |->
        ColumnDdl(model, PlainColumns(model.columns)[i])]

MANY_TO_ONE == <<"M", "A", "N", "Y", "_", "T", "O", "_", "O", "N", "E">>
ONE_TO_MANY == <<"O", "N", "E", "_", "T", "O", "_", "M", "A", "N", "Y">>
ONE_TO_ONE == <<"O", "N", "E", "_", "T", "O", "_", "O", "N", "E">>

\* the chain had MANY_TO_ONE tested against the second listed model
BranchForSecondModel(table_name, models, joinType) ==
    IF table_name = models[2] /\ joinType = MANY_TO_ONE THEN 1
    ELSE IF table_name = models[2] /\ joinType = ONE_TO_MANY THEN 2
    ELSE IF /\ \E k \in 1..Len(models) : models[k] = table_name
            /\ joinType = ONE_TO_ONE
    THEN 3
    ELSE 0

\* which branch of the if / elif / elif chain is taken for a relationship
\* of these models and this upper-cased join type, 0 for none
BranchFor(table_name, models, joinType) ==
    IF table_name = models[1] /\ joinType = MANY_TO_ONE THEN 1
    ELSE IF table_name = models[2] /\ joinType = ONE_TO_MANY THEN 2
    ELSE IF /\ \E k \in 1..Len(models) : models[k] = table_name
            /\ joinType = ONE_TO_ONE
    THEN 3
    ELSE 0

FkBranch(table_name, relationship) ==
    BranchFor(table_name, relationship.models,
              Upper(relationship.joinType))

\* models.index(table_name), 0-based
IndexOf(models, table_name) ==
    (CHOOSE k \in 1..Len(models) :
        /\ models[k] = table_name
        /\ \A j \in 1..(k - 1) : models[j] # table_name) - 1

\* the ONE_TO_ONE branch had always read the left side of the condition
FkIndexLeft(table_name, models, branch) ==
    IF branch = 1 THEN 0
    ELSE IF branch = 2 THEN 1
    ELSE 0

\* the side of the condition the branch reads, 0-based
FkIndex(table_name, models, branch) ==
    IF branch = 1 THEN 0
    ELSE IF branch = 2 THEN 1
    ELSE IndexOf(models, table_name)

\* [m for m in relationship["models"] if m != table_name]
OtherModels(models, table_name) ==
    SelectSeq(models, LAMBDA m : m # table_name)

\* related_table of the branch
RelatedTable(table_name, models, branch) ==
    IF branch = 1 THEN models[2]
    ELSE IF branch = 2 THEN models[1]
    ELSE OtherModels(models, table_name)[1]

\* side.split(".")[1] of the pieces of one side of the condition
SecondPart(parts) ==
    IF Len(parts) < 2 THEN [err |-> "IndexError"]
    ELSE [err |-> "none", name |-> Cat(parts[2])]

\* sides[index].split(".")[1] of the sides of the condition
SideColumn(sides, index) ==
    IF index + 1 > Len(sides) THEN [err |-> "IndexError"]
    ELSE SecondPart(Split(sides[index + 1], <<".">>))

\* relationship["condition"].split(" = ")[index].split(".")[1]
FkColumn(relationship, index) ==
    SideColumn(Split(relationship.condition, <<" ", "=", " ">>), index)

\* the comment put before a foreign-key line
FkComment(relationship) ==
    "-- {\"condition\": " \o Cat(relationship.condition)
        \o ", \"joinType\": " \o Cat(relationship.joinType) \o "}\n  "

\* fk_constraint with its comment, or the exception of the lookups
FkConstraint(comment, fk, related_table, primary_keys_map) ==
    IF fk.err # "none" THEN [err |-> fk.err, lines |-> <<>>]
    ELSE IF related_table \notin DOMAIN primary_keys_map
    THEN [err |-> "KeyError", lines |-> <<>>]
    ELSE [err |-> "none",
          lines |-> << comment \o "FOREIGN KEY (" \o fk.name
                        \o ") REFERENCES " \o related_table
                        \o "(" \o primary_keys_map[related_table] \o ")" >>]

\* the body of the branch taken
FkForBranch(table_name, relationship, primary_keys_map, branch) ==
    IF branch = 0 THEN [err |-> "none", lines |-> <<>>]
    ELSE IF branch = 3
            /\ OtherModels(relationship.models, table_name) = <<>>
    THEN [err |-> "IndexError", lines |-> <<>>]
    ELSE FkConstraint(FkComment(relationship),
                      FkColumn(relationship,
                               FkIndex(table_name, relationship.models,
                                       branch)),
                      RelatedTable(table_name, relationship.models, branch),
                      primary_keys_map)

\* what one relationship contributes to columns_ddl of one model:
\* no line, one foreign-key line, or the exception raised
FkOutcome(table_name, relationship, primary_keys_map) ==
    FkForBranch(table_name, relationship, primary_keys_map,
                FkBranch(table_name, relationship))

RECURSIVE Flatten(_)
\* the concatenation of a sequence of sequences
Flatten(seqs) ==
    IF seqs = <<>> THEN <<>> ELSE Head(seqs) \o Flatten(Tail(seqs))

\* the exception of the first iteration that raises, "none" if none does
FirstError(outs) ==
    IF \A i \in 1..Len(outs) : outs[i].err = "none" THEN "none"
    ELSE outs[CHOOSE i \in 1..Len(outs) :
                 /\ outs[i].err # "none"
                 /\ \A j \in 1..(i - 1) : outs[j].err = "none"].err

\* the lines of a loop whose iterations have the outcomes outs
CollectLines(outs) ==
    IF FirstError(outs) # "none"
    THEN [err |-> FirstError(outs), lines |-> <<>>]
    ELSE [err |-> "none",
          lines |-> Flatten([i \in 1..Len(outs) |-> outs[i].lines])]

\* the relationship loop of one model
FkLines(table_name, relationships, primary_keys_map) ==
    CollectLines([i \in 1..Len(relationships) |->
                     FkOutcome(table_name, relationships[i],
                               primary_keys_map)])

\* the block comment put before CREATE TABLE
ModelComment(model) ==
    IF "properties" \in DOMAIN model
    THEN "\n/* " \o Dumps(RenameDisplayName(model.properties)) \o " */\n"
    ELSE ""

CreateTableDdl(comment, table_name, columns_ddl) ==
    comment \o "CREATE TABLE " \o table_name \o " (\n  "
            \o Join(columns_ddl, ",\n  ") \o "\n);"

\* create_table_ddl of a model whose relationship loop ended with fks
BlockOf(model, fks) ==
    IF fks.err # "none" THEN [err |-> fks.err]
    ELSE [err |-> "none",
          ddl |-> CreateTableDdl(ModelComment(model), model.name,
                                 ColumnLines(model) \o fks.lines)]

\* one iteration of the model loop: the block, or the exception raised
ModelBlock(model, relationships, primary_keys_map) ==
    BlockOf(model, FkLines(model.name, relationships, primary_keys_map))

\* ddl_commands of a model loop whose iterations gave blocks
CollectBlocks(blocks) ==
    IF FirstError(blocks) # "none" THEN [err |-> FirstError(blocks)]
    ELSE [err |-> "none",
          ddl_commands |-> [i \in 1..Len(blocks) |-> blocks[i].ddl]]

\* the model loop, given primary_keys_map
ConvertWithKeys(models, relationships, primary_keys_map) ==
    CollectBlocks([i \in 1..Len(models) |->
                      ModelBlock(models[i], relationships,
                                 primary_keys_map)])

\* DDLConverter._convert_models_and_relationships
ConvertModelsAndRelationships(models, relationships) ==
    ConvertWithKeys(models, relationships, PrimaryKeysMap(models))

\* DDLConverter._convert_views, _format
ViewDdl(view) ==
    "/* " \o (IF "properties" \in DOMAIN view
              THEN PyRepr(view.properties) ELSE "")
          \o " */\nCREATE VIEW " \o view.name
          \o "\nAS (" \o view.statement \o ")"

\* DDLConverter._convert_views
ConvertViews(views) == [i \in 1..Len(views) |-> ViewDdl(views[i])]

DimensionDdl(dimension) ==
    "-- This column is a dimension\n  "
        \o dimension.name \o " " \o dimension.type

MeasureDdl(measure) ==
    "-- This column is a measure\n  -- expression: "
        \o measure.expression \o "\n  " \o measure.name \o " " \o measure.type

MetricDdl(metric) ==
    CreateTableDdl(
        "\n/* This table is a metric */\n/* Metric Base Object: "
            \o metric.baseObject \o " */\n",
        metric.name,
        [i \in 1..Len(metric.dimension) |-> DimensionDdl(metric.dimension[i])]
            \o [i \in 1..Len(metric.measure) |->
                   MeasureDdl(metric.measure[i])])

\* DDLConverter._convert_metrics
ConvertMetrics(metrics) ==
    [i \in 1..Len(metrics) |-> MetricDdl(metrics[i])]

\* the three lists concatenated with the views before the metrics
DdlCommandsViewsFirst(modelDdl, metricDdl, viewDdl) ==
    modelDdl \o viewDdl \o metricDdl

\* the order in which DDLConverter.run concatenates the three lists
DdlCommands(modelDdl, metricDdl, viewDdl) ==
    modelDdl \o metricDdl \o viewDdl

\* DDLConverter.run, after _convert_models_and_relationships
DdlDocuments(converted, mdl) ==
    IF converted.err # "none" THEN [status |-> converted.err]
    ELSE [status |-> "ok",
          documents |->
              Enumerate(DdlCommands(converted.ddl_commands,
                                    ConvertMetrics(mdl.metrics),
                                    ConvertViews(mdl.views)))]

\* DDLConverter.run
DDLConverterRun(mdl) ==
    DdlDocuments(ConvertModelsAndRelationships(SemanticModels(mdl.models),
                                               mdl.relationships),
                 mdl)

(***************************************************************************)
(* Inputs: the MDL values the model is run on                              *)
(***************************************************************************)
ModelPool ==
    << [name |-> "A", primaryKey |-> "a_id",
        columns |-> << [name |-> "a_id", type |-> "int"],
                       [name |-> "x", type |-> "int"] >>],
       [name |-> "A", primaryKey |-> "a_id",
        properties |-> << <<"displayName", "Alpha">>,
                          <<"description", "first">> >>,
        columns |-> << [name |-> "a_id", type |-> "int",
                        properties |-> << <<"displayName", "Id">> >>],
                       [name |-> "x", type |-> "int", notNull |-> TRUE,
                        properties |-> << <<"description", "link">> >>],
                       [name |-> "b", type |-> "B",
                        relationship |-> "AB"] >>],
       [name |-> "B", primaryKey |-> "b_id",
        columns |-> << [name |-> "b_id", type |-> "int"],
                       [name |-> "y", type |-> "int"],
                       [name |-> "twice", type |-> "int",
                        isCalculated |-> TRUE,
                        expression |-> "y * 2"] >>],
       [name |-> "B", primaryKey |-> "b_id",
        properties |-> <<>>,
        columns |-> << [name |-> "b_id", type |-> "int",
                        isCalculated |-> FALSE,
                        properties |-> << <<"alias", "old">>,
                                          <<"displayName", "New">>,
                                          <<"description", "key">> >>],
                       [name |-> "y", type |-> "int",
                        properties |-> <<>>] >>],
       [name |-> "C", primaryKey |-> "missing",
        properties |-> << <<"description", "third">> >>,
        columns |-> << [name |-> "c_id", type |-> "int"] >>],
       [name |-> "orders", primaryKey |-> "id",
        columns |-> << [name |-> "id", type |-> "int"],
                       [name |-> "total", type |-> "decimal"] >>] >>

RelNames == <<"A", "B", "C">>

many_to_one == <<"m", "a", "n", "y", "_", "t", "o", "_", "o", "n", "e">>
One_To_Many == <<"O", "n", "e", "_", "T", "o", "_", "M", "a", "n", "y">>
one_to_one == <<"o", "n", "e", "_", "t", "o", "_", "o", "n", "e">>

\* the spellings of the join types the inputs use
JoinTypes == <<MANY_TO_ONE, many_to_one, One_To_Many, ONE_TO_ONE, one_to_one>>

\* the relationship {models: [a, b], condition: "a.x = b.y", joinType: jt}
Relationship(a, b, jt) ==
    [name |-> a \o b,
     models |-> <<a, b>>,
     joinType |-> jt,
     condition |-> <<a, ".", "x", " ", "=", " ", b, ".", "y">>]

MetricNamed(n) ==
    [name |-> "metric_" \o n,
     baseObject |-> "A",
     dimension |-> << [name |-> "day", type |-> "date"] >>,
     measure |-> << [name |-> "sum_x", type |-> "int",
                     expression |-> "sum(x)"] >>]

Metric(i) == MetricNamed(Cat(StrInt(i)))

\* a view with properties, a view without
ViewNamed(n, withProperties) ==
    IF withProperties
    THEN [name |-> "view_" \o n,
          statement |-> "select " \o n,
          properties |-> << <<"question", "q" \o n>>,
                            <<"summary", "s">>,
                            <<"viewId", "v" \o n>> >>]
    ELSE [name |-> "view_" \o n,
          statement |-> "select " \o n]

View(i) == ViewNamed(Cat(StrInt(i)), i % 2 = 1)

\* sequences over S of length at most n
RECURSIVE SeqsUpTo(_, _)
SeqsUpTo(S, n) ==
    IF n = 0 THEN {<<>>}
    ELSE LET shorter == SeqsUpTo(S, n - 1)
         IN  shorter \cup {Append(q, e) : q \in shorter, e \in S}

RelOptions == (1..Len(RelNames)) \X (1..Len(RelNames)) \X (1..Len(JoinTypes))

\* a validated MDL, from indexes into the pools
MakeMdl(modelIdx, relIdx, nMetrics, nViews) ==
    [models |-> [i \in 1..Len(modelIdx) |-> ModelPool[modelIdx[i]]],
     relationships |-> [i \in 1..Len(relIdx) |->
                           Relationship(RelNames[relIdx[i][1]],
                                        RelNames[relIdx[i][2]],
                                        JoinTypes[relIdx[i][3]])],
     metrics |-> [i \in 1..nMetrics |-> Metric(i)],
     views |-> [i \in 1..nViews |-> View(i)]]

\* the MDL texts handed to Indexing.run; wellformed says whether the text
\* is JSON, json is the object it denotes (keys may be missing)
MdlTexts ==
    << [wellformed |-> FALSE, json |-> <<>>],
       [wellformed |-> TRUE, json |-> <<>>],
       [wellformed |-> TRUE,
        json |-> [models |-> <<ModelPool[6]>>,
                  views |-> <<View(1)>>]],
       [wellformed |-> TRUE,
        json |-> MakeMdl(<<2, 3>>, << <<1, 2, 2>> >>, 1, 2)],
       [wellformed |-> TRUE,
        json |-> [models |-> <<ModelPool[1]>>,
                  relationships |-> <<Relationship("A", "C", MANY_TO_ONE)>>,
                  views |-> <<View(1)>>]],
       [wellformed |-> TRUE,
        json |-> [views |-> [i \in 1..ManyViews |-> View(i)]]] >>

\* the texts given to runs that overlap
ConcurrentTexts == {3, 4}

(***************************************************************************)
(* Components of the pipeline                                              *)
(***************************************************************************)
Runs == {1, 2}

\* store.count_documents()
CountDocuments(store) == Cardinality(DOMAIN store)

\* store.delete_documents(ids)
DeleteDocuments(store, ids) == [id \in (DOMAIN store) \ ids |-> store[id]]

\* ids of _clear_documents had the range started at 1
ClearIdsFromOne(store) == {StrInt(i) : i \in 1..CountDocuments(store)}

\* DocumentCleaner.run, ids of _clear_documents
ClearIds(store) == {StrInt(i) : i \in 0..(CountDocuments(store) - 1)}

\* DocumentCleaner.run, _clear_documents once ids is computed
DeleteIfAny(store, ids) ==
    IF ids # {} THEN DeleteDocuments(store, ids) ELSE store

\* DocumentCleaner.run, _clear_documents
ClearDocuments(store) == DeleteIfAny(store, ClearIds(store))

\* DocumentCleaner.run, the value returned
DocumentCleanerRun(mdl) == [mdl |-> mdl]

MdlKeys == {"models", "views", "relationships", "metrics"}

\* MDLValidator.run
MDLValidatorRun(mdl) ==
    IF ~mdl.wellformed THEN [status |-> "ValueError"]
    ELSE [status |-> "ok",
          mdl |-> [k \in (DOMAIN mdl.json) \cup MdlKeys |->
                      IF k \in DOMAIN mdl.json THEN mdl.json[k] ELSE <<>>]]

\* the document embedder: the same documents with a vector each
EmbedderRun(documents) ==
    [i \in 1..Len(documents) |->
        [documents[i] EXCEPT !.embedding = "vector"]]

\* the writer had been built with DuplicatePolicy.SKIP
WriteDocumentsSkip(store, documents) ==
    [id \in (DOMAIN store) \cup {documents[i].id : i \in 1..Len(documents)} |->
        IF id \in DOMAIN store THEN store[id]
        ELSE documents[CHOOSE i \in 1..Len(documents) :
                          /\ documents[i].id = id
                          /\ \A j \in 1..(i - 1) : documents[j].id # id]]

\* DocumentWriter.run with DuplicatePolicy.OVERWRITE
WriteDocuments(store, documents) ==
    [id \in (DOMAIN store) \cup {documents[i].id : i \in 1..Len(documents)} |->
        IF \E i \in 1..Len(documents) : documents[i].id = id
        THEN documents[CHOOSE i \in 1..Len(documents) :
                          /\ documents[i].id = id
                          /\ \A j \in (i + 1)..Len(documents) :
                                documents[j].id # id]
        ELSE store[id]]

(***************************************************************************)
(* The dataflow graph of Indexing.run                                      *)
(***************************************************************************)
Nodes ==
    {"clean_document_store", "validate_mdl", "convert_to_ddl", "embed_ddl",
     "write_ddl", "convert_to_view", "embed_view", "write_view"}

\* the graph had validate_mdl taken mdl_str as its parameter
DepsValidateFromInput(n) ==
    CASE n = "clean_document_store" -> {}
      [] n = "validate_mdl" -> {}
      [] n = "convert_to_ddl" -> {"validate_mdl"}
      [] n = "embed_ddl" -> {"convert_to_ddl"}
      [] n = "write_ddl" -> {"embed_ddl"}
      [] n = "convert_to_view" -> {"validate_mdl"}
      [] n = "embed_view" -> {"convert_to_view"}
      [] n = "write_view" -> {"embed_view"}

\* the nodes a node takes as parameters
Deps(n) ==
    CASE n = "clean_document_store" -> {}
      [] n = "validate_mdl" -> {"clean_document_store"}
      [] n = "convert_to_ddl" -> {"validate_mdl"}
      [] n = "embed_ddl" -> {"convert_to_ddl"}
      [] n = "write_ddl" -> {"embed_ddl"}
      [] n = "convert_to_view" -> {"validate_mdl"}
      [] n = "embed_view" -> {"convert_to_view"}
      [] n = "write_view" -> {"embed_view"}

\* Indexing.run had asked the driver for write_ddl alone
FinalVarsDdlOnly == {"write_ddl"}

\* the outputs Indexing.run asks the driver for
FinalVars == {"write_ddl", "write_view"}

RECURSIVE Upstream(_, _)
Upstream(S, k) ==
    IF k = 0 THEN S
    ELSE Upstream(S \cup UNION {Deps(n) : n \in S}, k - 1)

\* the nodes the driver executes for FinalVars
Needed == Upstream(FinalVars, Cardinality(Nodes))

\* a node runs once, when every node it takes as a parameter has returned
Ready(r, n) ==
    /\ result[r] = "running"
    /\ n \in Needed
    /\ node[r][n] = "todo"
    /\ \A d \in Deps(n) : node[r][d] = "done"

\* values flowing along the edges of the graph
CleanOut(r) == DocumentCleanerRun(mdl_str[r])
ValidateOut(r) == MDLValidatorRun(CleanOut(r).mdl)
ConvertDdlOut(r) == DDLConverterRun(ValidateOut(r).mdl)
EmbedDdlOut(r) == [documents |-> EmbedderRun(ConvertDdlOut(r).documents)]
ConvertViewOut(r) == ViewConverterRun(ValidateOut(r).mdl)
EmbedViewOut(r) == [documents |-> EmbedderRun(ConvertViewOut(r).documents)]

Finished(r, n, how) ==
    node' = [node EXCEPT ![r][n] = how]

Logged(r, n) == trace' = Append(trace, <<r, n>>)

(***************************************************************************)
(* Actions                                                                 *)
(***************************************************************************)
Begin(r, k) ==
    /\ mdl_str' = [mdl_str EXCEPT ![r] = MdlTexts[k]]
    /\ node' = [node EXCEPT ![r] = [n \in Nodes |-> "todo"]]
    /\ result' = [result EXCEPT ![r] = "running"]
    /\ start_ddl' = [start_ddl EXCEPT ![r] = ddl_store]
    /\ start_view' = [start_view EXCEPT ![r] = view_store]
    /\ trace' = SelectSeq(trace, LAMBDA e : e[1] # r)
    /\ UNCHANGED <<ddl_store, view_store, conv_in, conv_out>>

\* Indexing.run called while no other run is in progress
StartRun(r, k) ==
    /\ \A q \in Runs : result[q] # "running"
    /\ Begin(r, k)

\* Indexing.run called for the first time, whatever the other run is doing
StartConcurrentRun(r, k) ==
    /\ result[r] = "idle"
    /\ Begin(r, k)

\* clean_document_store: both stores are cleared, or a store call raises
\* before the DDL store or before the view store is cleared
clean_document_store(r) ==
    /\ Ready(r, "clean_document_store")
    /\ \/ /\ ddl_store' = ClearDocuments(ddl_store)
          /\ view_store' = ClearDocuments(view_store)
          /\ Finished(r, "clean_document_store", "done")
          /\ Logged(r, "clean_document_store")
       \/ /\ UNCHANGED <<ddl_store, view_store, trace>>
          /\ Finished(r, "clean_document_store", "failed")
       \/ /\ ddl_store' = ClearDocuments(ddl_store)
          /\ UNCHANGED <<view_store, trace>>
          /\ Finished(r, "clean_document_store", "failed")
    /\ UNCHANGED <<mdl_str, result, start_ddl, start_view, conv_in, conv_out>>

validate_mdl(r) ==
    /\ Ready(r, "validate_mdl")
    /\ Finished(r, "validate_mdl",
                IF ValidateOut(r).status = "ok" THEN "done" ELSE "failed")
    /\ UNCHANGED <<ddl_store, view_store, mdl_str, result, start_ddl,
                   start_view, trace, conv_in, conv_out>>

convert_to_ddl(r) ==
    /\ Ready(r, "convert_to_ddl")
    /\ Finished(r, "convert_to_ddl",
                IF ConvertDdlOut(r).status = "ok" THEN "done" ELSE "failed")
    /\ UNCHANGED <<ddl_store, view_store, mdl_str, result, start_ddl,
                   start_view, trace, conv_in, conv_out>>

\* embed_ddl: the awaited embedder returns or raises
embed_ddl(r) ==
    /\ Ready(r, "embed_ddl")
    /\ \E how \in {"done", "failed"} : Finished(r, "embed_ddl", how)
    /\ UNCHANGED <<ddl_store, view_store, mdl_str, result, start_ddl,
                   start_view, trace, conv_in, conv_out>>

\* ddl_writer.run: every document is written, or the store raises after
\* having written the first k documents
WriteDdl(r, documents) ==
    \/ /\ ddl_store' = WriteDocuments(ddl_store, documents)
       /\ Finished(r, "write_ddl", "done")
       /\ Logged(r, "write_ddl")
    \/ /\ \E k \in 0..Len(documents) :
             ddl_store' = WriteDocuments(ddl_store, SubSeq(documents, 1, k))
       /\ Finished(r, "write_ddl", "failed")
       /\ Logged(r, "write_ddl")

write_ddl(r) ==
    /\ Ready(r, "write_ddl")
    /\ WriteDdl(r, EmbedDdlOut(r).documents)
    /\ UNCHANGED <<view_store, mdl_str, result, start_ddl, start_view,
                   conv_in, conv_out>>

convert_to_view(r) ==
    /\ Ready(r, "convert_to_view")
    /\ Finished(r, "convert_to_view",
                IF ConvertViewOut(r).status = "ok" THEN "done" ELSE "failed")
    /\ UNCHANGED <<ddl_store, view_store, mdl_str, result, start_ddl,
                   start_view, trace, conv_in, conv_out>>

embed_view(r) ==
    /\ Ready(r, "embed_view")
    /\ \E how \in {"done", "failed"} : Finished(r, "embed_view", how)
    /\ UNCHANGED <<ddl_store, view_store, mdl_str, result, start_ddl,
                   start_view, trace, conv_in, conv_out>>

\* view_writer.run: every document is written, or the store raises after
\* having written the first k documents
WriteView(r, documents) ==
    \/ /\ view_store' = WriteDocuments(view_store, documents)
       /\ Finished(r, "write_view", "done")
       /\ Logged(r, "write_view")
    \/ /\ \E k \in 0..Len(documents) :
             view_store' = WriteDocuments(view_store, SubSeq(documents, 1, k))
       /\ Finished(r, "write_view", "failed")
       /\ Logged(r, "write_view")

write_view(r) ==
    /\ Ready(r, "write_view")
    /\ WriteView(r, EmbedViewOut(r).documents)
    /\ UNCHANGED <<ddl_store, mdl_str, result, start_ddl, start_view,
                   conv_in, conv_out>>

\* Indexing.run returns the driver's result or raises the failure of a node
EndRun(r) ==
    /\ result[r] = "running"
    /\ \A n \in Nodes : ~Ready(r, n)
    /\ result' = [result EXCEPT ![r] =
                     IF \A n \in FinalVars : node[r][n] = "done"
                     THEN "success" ELSE "failure"]
    /\ UNCHANGED <<ddl_store, view_store, mdl_str, node, start_ddl,
                   start_view, trace, conv_in, conv_out>>

\* a stand-alone call of DDLConverter.run
Synthesize ==
    /\ conv_out.status = "none"
    /\ conv_out' = DDLConverterRun(conv_in)
    /\ UNCHANGED <<pipe_vars, conv_in>>

(***************************************************************************)
(* Specifications                                                          *)
(***************************************************************************)
EmptyStore == [id \in {} |-> "None"]

PipeInit ==
    /\ ddl_store = EmptyStore
    /\ view_store = EmptyStore
    /\ mdl_str = [r \in Runs |-> "None"]
    /\ node = [r \in Runs |-> [n \in Nodes |-> "todo"]]
    /\ result = [r \in Runs |-> "idle"]
    /\ start_ddl = [r \in Runs |-> EmptyStore]
    /\ start_view = [r \in Runs |-> EmptyStore]
    /\ trace = <<>>

ModelIdx == SeqsUpTo(1..Len(ModelPool), MaxModels)

\* one model of each name
RelModelIdx == SeqsUpTo({2, 3, 5}, MaxModels)

\* inputs that vary the relationships
RelInputs ==
    {MakeMdl(m, q, 0, 0) :
        m \in RelModelIdx, q \in SeqsUpTo(RelOptions, MaxRels)}

\* inputs that vary the numbers of models, metrics and views
CountInputs ==
    {MakeMdl(m, q, nm, nv) :
        m \in ModelIdx, q \in {<<>>, << <<1, 2, 1>> >>},
        nm \in 0..MaxMetrics, nv \in 0..MaxViews}

\* sequential runs of the pipeline
Init ==
    /\ PipeInit
    /\ conv_in = "None"
    /\ conv_out = [status |-> "unused"]

Step(r) ==
    \/ clean_document_store(r)
    \/ validate_mdl(r)
    \/ convert_to_ddl(r)
    \/ embed_ddl(r)
    \/ write_ddl(r)
    \/ convert_to_view(r)
    \/ embed_view(r)
    \/ write_view(r)
    \/ EndRun(r)

\* one run after the other: the same pipeline object is called again
Next ==
    \/ \E k \in 1..Len(MdlTexts) : StartRun(1, k)
    \/ Step(1)

Spec == Init /\ [][Next]_vars

\* runs of the pipeline that overlap
NextConc ==
    \E r \in Runs :
        \/ \E k \in ConcurrentTexts : StartConcurrentRun(r, k)
        \/ Step(r)

SpecConc == Init /\ [][NextConc]_vars

\* stand-alone calls of the DDL converter
InitDDL ==
    /\ PipeInit
    /\ \/ conv_in \in RelInputs
       \/ conv_in \in CountInputs
    /\ conv_out = [status |-> "none"]

NextDDL == Synthesize

SpecDDL == InitDDL /\ [][NextDDL]_vars

(***************************************************************************)
(* Properties                                                              *)
(***************************************************************************)
Writes == {"write_ddl", "write_view"}

\* the store holds exactly these documents, each under its own id
StoreHolds(store, documents) ==
    /\ DOMAIN store = {documents[i].id : i \in 1..Len(documents)}
    /\ \A i \in 1..Len(documents) : store[documents[i].id] = documents[i]

\* the position of an entry in the trace
Pos(r, n) == CHOOSE i \in 1..Len(trace) : trace[i] = <<r, n>>

InTrace(r, n) == \E i \in 1..Len(trace) : trace[i] = <<r, n>>

\* C1: when the MDL text of a run is malformed, the run fails at validation
\* and at that moment both stores are as they were when the run started.
C1_ParseErrorBeforeMutation ==
    \A r \in Runs :
        (/\ result[r] = "running"
         /\ ~mdl_str[r].wellformed
         /\ node[r]["validate_mdl"] # "todo")
        => /\ node[r]["validate_mdl"] = "failed"
           /\ ddl_store = start_ddl[r]
           /\ view_store = start_view[r]

\* C2: the step in which a run's store reset completes leaves the DDL store
\* and the view store without documents, whatever earlier runs left there.
C2_ResetEmptiesStores ==
    [][\A r \in Runs :
          (/\ node[r]["clean_document_store"] = "todo"
           /\ node'[r]["clean_document_store"] = "done")
          => /\ DOMAIN ddl_store' = {}
             /\ DOMAIN view_store' = {}]_vars

\* a reset has just emptied stores that held more than ten documents each
C2_Witness ==
    /\ result[1] = "running"
    /\ node[1]["clean_document_store"] = "done"
    /\ node[1]["validate_mdl"] = "todo"
    /\ CountDocuments(start_ddl[1]) > 10
    /\ CountDocuments(start_view[1]) > 10
    /\ DOMAIN ddl_store = {}
    /\ DOMAIN view_store = {}

\* C3: every write of a run to either store comes after the completed reset
\* of that run; a run never writes before or during its reset.
C3_ResetBeforeWrites ==
    /\ \A i \in 1..Len(trace) :
          trace[i][2] \in Writes
          => \E j \in 1..(i - 1) :
                trace[j] = <<trace[i][1], "clean_document_store">>
    /\ \A r \in Runs : \A w \in Writes :
          node[r][w] # "todo" => node[r]["clean_document_store"] = "done"

\* a run has reset stores that held documents and then written both
C3_Witness ==
    /\ trace = << <<1, "clean_document_store">>, <<1, "write_view">>,
                  <<1, "write_ddl">> >>
    /\ DOMAIN start_ddl[1] # {}
    /\ DOMAIN start_view[1] # {}
    /\ DOMAIN ddl_store # {}
    /\ DOMAIN view_store # {}

ModelNames(mdl) == {mdl.models[i].name : i \in 1..Len(mdl.models)}

\* the relationship names a model that is not in the model set
NamesAbsentModel(mdl, relationship) ==
    /\ relationship.joinType
          \in {MANY_TO_ONE, many_to_one, One_To_Many, ONE_TO_ONE, one_to_one}
    /\ \E k \in 1..2 : relationship.models[k] \notin ModelNames(mdl)

\* C4: when a relationship names a model absent from the model set, DDL
\* synthesis raises; it never completes.
C4_AbsentModelRaises ==
    (/\ conv_out.status # "none"
     /\ \E i \in 1..Len(conv_in.relationships) :
           NamesAbsentModel(conv_in, conv_in.relationships[i]))
    => conv_out.status # "ok"

DigitValue(c) == (CHOOSE d \in 1..10 : Digits[d] = c) - 1

RECURSIVE DecimalValue(_)
\* the number a sequence of digits denotes
DecimalValue(cs) ==
    IF cs = <<>> THEN 0
    ELSE 10 * DecimalValue(SubSeq(cs, 1, Len(cs) - 1))
            + DigitValue(cs[Len(cs)])

\* cs is the decimal string of n
IsDecimalOf(cs, n) ==
    /\ Len(cs) >= 1
    /\ \A k \in 1..Len(cs) : \E d \in 1..10 : Digits[d] = cs[k]
    /\ Len(cs) > 1 => cs[1] # "0"
    /\ DecimalValue(cs) = n

\* the block of the entity at position i (1-based) of models, then metrics,
\* then views
EntityBlock(mdl, models, i) ==
    IF i <= Len(models)
    THEN ModelBlock(models[i], mdl.relationships, PrimaryKeysMap(models)).ddl
    ELSE IF i <= Len(models) + Len(mdl.metrics)
    THEN MetricDdl(mdl.metrics[i - Len(models)])
    ELSE ViewDdl(mdl.views[i - Len(models) - Len(mdl.metrics)])

DocumentsInOrder(mdl, documents) ==
    /\ Len(documents) = Len(mdl.models) + Len(mdl.metrics) + Len(mdl.views)
    /\ \A i \in 1..Len(documents) :
          /\ IsDecimalOf(documents[i].id, i - 1)
          /\ documents[i].content
                = EntityBlock(mdl, SemanticModels(mdl.models), i)

\* C5: a synthesis that completes on N models, M metrics and V views gives
\* N+M+V documents, the model blocks, then the metric blocks, then the view
\* blocks, each in input order, the document at position i having the
\* decimal string of i as its id.
C5_DocumentsInOrder ==
    conv_out.status = "ok" => DocumentsInOrder(conv_in, conv_out.documents)

\* eleven documents, from models, metrics and views
C5_Witness ==
    /\ conv_out.status = "ok"
    /\ Len(conv_out.documents) = 11
    /\ Len(conv_in.models) = 2
    /\ Len(conv_in.metrics) = 4
    /\ Len(conv_in.views) = 5
    /\ conv_out.documents[11].id = <<"1", "0">>

OrdersDdl ==
    "CREATE TABLE orders (\n  id int PRIMARY KEY,\n  total decimal\n);"

\* the block comment a model is to have: one iff the input model carries
\* properties
InputComment(model) ==
    IF "properties" \in DOMAIN model
    THEN "\n/* " \o Dumps(RenameDisplayName(model.properties)) \o " */\n"
    ELSE ""

\* the block of a model, with the comment given
BlockWithComment(comment, model, fks) ==
    CreateTableDdl(comment, model.name, ColumnLines(model) \o fks.lines)

CommentIffProperties(mdl, models, documents) ==
    \A i \in 1..Len(mdl.models) :
        /\ documents[i].content
              = BlockWithComment(InputComment(mdl.models[i]), models[i],
                                 FkLines(models[i].name, mdl.relationships,
                                         PrimaryKeysMap(models)))
        /\ (mdl.models[i].name = "orders" /\ mdl.relationships = <<>>)
           => documents[i].content = OrdersDdl

\* C6: a model's block starts with a block comment iff the input model
\* carries properties; the orders model, which carries none, is rendered as
\* the bare CREATE TABLE statement.
C6_CommentIffProperties ==
    conv_out.status = "ok"
    => CommentIffProperties(conv_in, SemanticModels(conv_in.models),
                            conv_out.documents)

\* the primary key of the model named n
PrimaryKeyOf(mdl, n) ==
    mdl.models[CHOOSE i \in 1..Len(mdl.models) :
                  /\ mdl.models[i].name = n
                  /\ \A j \in (i + 1)..Len(mdl.models) :
                        mdl.models[j].name # n].primaryKey

\* the relationship is {models: [A, B], condition: "A.x = B.y"} with A and B
\* distinct models of the model set
LinksTwoModels(mdl, relationship) ==
    /\ relationship.models[1] # relationship.models[2]
    /\ relationship.models[1] \in ModelNames(mdl)
    /\ relationship.models[2] \in ModelNames(mdl)
    /\ relationship.condition
          = <<relationship.models[1], ".", "x", " ", "=", " ",
              relationship.models[2], ".", "y">>

\* the foreign-key line on column referencing the primary key of target
ForeignKeyLine(mdl, relationship, column, target) ==
    FkComment(relationship) \o "FOREIGN KEY (" \o column \o ") REFERENCES "
        \o target \o "(" \o PrimaryKeyOf(mdl, target) \o ")"

\* the block of a model when relationship i contributes the lines given and
\* every other relationship what it contributes
BlockWithLines(model, relationships, primary_keys_map, i, lines) ==
    CreateTableDdl(
        ModelComment(model), model.name,
        ColumnLines(model)
            \o Flatten([j \in 1..Len(relationships) |->
                           IF j = i THEN lines
                           ELSE FkOutcome(model.name, relationships[j],
                                          primary_keys_map).lines]))

\* every block of a model named n is the block in which relationship i
\* contributes the lines given
BlocksHaveLines(mdl, models, documents, n, i, lines) ==
    \A m \in 1..Len(models) :
        models[m].name = n
        => documents[m].content
              = BlockWithLines(models[m], mdl.relationships,
                               PrimaryKeysMap(models), i, lines)

ManyToOneDirection(mdl, models, documents) ==
    \A i \in 1..Len(mdl.relationships) :
        (/\ LinksTwoModels(mdl, mdl.relationships[i])
         /\ mdl.relationships[i].joinType \in {MANY_TO_ONE, many_to_one})
        => /\ BlocksHaveLines(mdl, models, documents,
                              mdl.relationships[i].models[1], i,
                              <<ForeignKeyLine(mdl, mdl.relationships[i], "x",
                                     mdl.relationships[i].models[2])>>)
           /\ BlocksHaveLines(mdl, models, documents,
                              mdl.relationships[i].models[2], i, <<>>)

\* C7: for a MANY_TO_ONE relationship (in any letter case) between distinct
\* models A and B with condition "A.x = B.y", the block of A has the
\* foreign-key line on x referencing the primary key of B, and the block of
\* B has no line from this relationship.
C7_ManyToOneDirection ==
    conv_out.status = "ok"
    => ManyToOneDirection(conv_in, SemanticModels(conv_in.models),
                          conv_out.documents)

\* a lower-case many_to_one relationship between A and B has been rendered
C7_Witness ==
    /\ conv_out.status = "ok"
    /\ Len(conv_in.relationships) = 1
    /\ LinksTwoModels(conv_in, conv_in.relationships[1])
    /\ conv_in.relationships[1].joinType = many_to_one
    /\ conv_in.relationships[1].models = <<"B", "A">>

OneToOneBothSides(mdl, models, documents) ==
    \A i \in 1..Len(mdl.relationships) :
        (/\ LinksTwoModels(mdl, mdl.relationships[i])
         /\ mdl.relationships[i].joinType \in {ONE_TO_ONE, one_to_one})
        => /\ BlocksHaveLines(mdl, models, documents,
                              mdl.relationships[i].models[1], i,
                              <<ForeignKeyLine(mdl, mdl.relationships[i], "x",
                                     mdl.relationships[i].models[2])>>)
           /\ BlocksHaveLines(mdl, models, documents,
                              mdl.relationships[i].models[2], i,
                              <<ForeignKeyLine(mdl, mdl.relationships[i], "y",
                                     mdl.relationships[i].models[1])>>)

\* C8: for a ONE_TO_ONE relationship between distinct models A and B with
\* condition "A.x = B.y", each block has exactly one line from it: A the
\* foreign key on x referencing the primary key of B, B the foreign key on
\* y referencing the primary key of A.
C8_OneToOneBothSides ==
    conv_out.status = "ok"
    => OneToOneBothSides(conv_in, SemanticModels(conv_in.models),
                         conv_out.documents)

\* a ONE_TO_ONE relationship between A and B has been rendered
C8_Witness ==
    /\ conv_out.status = "ok"
    /\ Len(conv_in.relationships) = 1
    /\ LinksTwoModels(conv_in, conv_in.relationships[1])
    /\ conv_in.relationships[1].joinType = ONE_TO_ONE
    /\ conv_in.relationships[1].models = <<"A", "B">>

\* C9: a run that ends in success has persisted both streams, and a run in
\* which a node failed does not end in success: it ends in failure.
C9_SuccessNeedsBothStreams ==
    /\ result[1] = "success"
       => /\ \A n \in Nodes : node[1][n] = "done"
          /\ StoreHolds(ddl_store, EmbedDdlOut(1).documents)
          /\ StoreHolds(view_store, EmbedViewOut(1).documents)
    /\ \A r \in Runs :
          (/\ result[r] \in {"success", "failure"}
           /\ \E n \in Nodes : node[r][n] = "failed")
          => result[r] = "failure"

\* a run has ended in failure with the view stream persisted and the DDL
\* stream failed at synthesis
C9_Witness ==
    /\ result[1] = "failure"
    /\ node[1]["write_view"] = "done"
    /\ node[1]["convert_to_ddl"] = "failed"
    /\ DOMAIN view_store # {}

\* the DDL store after run a wrote into the emptied store and run b then
\* wrote over it
Overlaid(store, first, last) ==
    /\ DOMAIN store
          = {first[i].id : i \in 1..Len(first)}
               \cup {last[i].id : i \in 1..Len(last)}
    /\ \A i \in 1..Len(last) : store[last[i].id] = last[i]
    /\ \A i \in (Len(last) + 1)..Len(first) : store[first[i].id] = first[i]

\* both runs ended in success, a having written its DDL documents after the
\* reset of b and before b wrote its own
WroteBetween(a, b) ==
    /\ result[a] = "success"
    /\ result[b] = "success"
    /\ Pos(b, "clean_document_store") < Pos(a, "write_ddl")
    /\ Pos(a, "write_ddl") < Pos(b, "write_ddl")

\* C10: when two runs overlap so that one writes its DDL documents between
\* the reset and the write of the other, the store ends with the documents
\* of the last writer at its positions and the documents of the first
\* writer surviving beyond them.
C10_FirstWriterSurvives ==
    \A a \in Runs : \A b \in Runs \ {a} :
        WroteBetween(a, b)
        => Overlaid(ddl_store, EmbedDdlOut(a).documents,
                    EmbedDdlOut(b).documents)

\* both runs succeeded and the DDL store holds the documents of neither
C10_Witness ==
    /\ result[1] = "success"
    /\ result[2] = "success"
    /\ mdl_str[1] # mdl_str[2]
    /\ ~StoreHolds(ddl_store, EmbedDdlOut(1).documents)
    /\ ~StoreHolds(ddl_store, EmbedDdlOut(2).documents)
    /\ CountDocuments(ddl_store) > Len(EmbedDdlOut(2).documents)
    /\ Pos(1, "write_ddl") < Pos(2, "write_ddl")

\* the properties map with the key displayName renamed to alias and every
\* other entry unchanged
DisplayNameRenamed(properties) ==
    [i \in 1..Len(properties) |->
        IF properties[i][1] = "displayName"
        THEN <<"alias", properties[i][2]>>
        ELSE properties[i]]

\* the texts of the annotations that hold exactly the entries of d, in any
\* order
AnnotationsOf(d) ==
    {Dumps([i \in 1..Len(d) |-> d[f[i]]]) : f \in Permutations(1..Len(d))}

\* the lines a column may be rendered as: the annotation of its input
\* properties, when it has a properties map, before the rest of the line
RenamedColumnLines(model, column) ==
    IF "properties" \in DOMAIN column
    THEN {"-- " \o a \o "\n  " \o CalculatedComment(column)
                \o column.name \o " " \o column.type
                \o (IF column.name = model.primaryKey
                    THEN " PRIMARY KEY" ELSE "") :
             a \in AnnotationsOf(DisplayNameRenamed(column.properties))}
    ELSE {ColumnDdl(model, column)}

\* lines is one choice of a rendering for each column without a relationship
\* marker
LinesOfColumns(model, columns, lines) ==
    /\ Len(lines) = Len(columns)
    /\ \A j \in 1..Len(columns) :
          lines[j] \in RenamedColumnLines(model, columns[j])

AllColumnLines(model, columns) ==
    UNION {RenamedColumnLines(model, columns[j]) : j \in 1..Len(columns)}

BlockHasRenamedColumns(content, model, columns, fks) ==
    \E lines \in [1..Len(columns) -> AllColumnLines(model, columns)] :
        /\ LinesOfColumns(model, columns, lines)
        /\ content = CreateTableDdl(ModelComment(model), model.name,
                                    lines \o fks.lines)

ColumnsRenamed(mdl, models, documents) ==
    \A i \in 1..Len(mdl.models) :
        BlockHasRenamedColumns(documents[i].content, models[i],
                               PlainColumns(mdl.models[i].columns),
                               FkLines(models[i].name, mdl.relationships,
                                       PrimaryKeysMap(models)))

\* C11: in every block of a completed synthesis, the comment line of each
\* column without a relationship marker that has a properties map embeds
\* exactly the entries of that map with the key displayName renamed to alias:
\* as many entries as the input, none added, lost or given another value.
C11_AnnotationIsRenamedProperties ==
    conv_out.status = "ok"
    => ColumnsRenamed(conv_in, SemanticModels(conv_in.models),
                      conv_out.documents)

====
